---- MODULE Spec2Model ----
(***************************************************************************)
(* fNIRS channel-layout validation of mne/preprocessing/nirs/nirs.py.      *)
(*                                                                         *)
(* The measurement info is an ordered list of channels (name, type, loc)   *)
(* and a list of bad channel names.  Channel names are sequences of        *)
(* one-character strings, so that the two name regular expressions are     *)
(* matched character by character, as re.match does.  Channel indices are  *)
(* 0-based, as in the source; chs[ii + 1] is the channel of index ii.      *)
(***************************************************************************)
EXTENDS Integers, Sequences, FiniteSets, TLC

VARIABLES chs, bads, prev, ret

vars == <<chs, bads, prev, ret>>

\* The longest channel list the model builds.
MaxCh == 4

----------------------------------------------------------------------------
(* Characters and values *)

Digits == {"0", "1", "2", "3", "4", "5", "6", "7", "8", "9"}

Letters == {"a", "b", "c", "d", "e", "f", "g", "h", "i", "j", "k", "l", "m",
            "n", "o", "p", "q", "r", "s", "t", "u", "v", "w", "x", "y", "z",
            "A", "B", "C", "D", "E", "F", "G", "H", "I", "J", "K", "L", "M",
            "N", "O", "P", "Q", "R", "S", "T", "U", "V", "W", "X", "Y", "Z"}

\* \w of the re module (ASCII part)
WordChars == Digits \cup Letters \cup {"_"}

DigitVal(c) ==
    CASE c = "0" -> 0 [] c = "1" -> 1 [] c = "2" -> 2 [] c = "3" -> 3
      [] c = "4" -> 4 [] c = "5" -> 5 [] c = "6" -> 6 [] c = "7" -> 7
      [] c = "8" -> 8 [] c = "9" -> 9

\* A Python value held in pair_vals, first_value, second_value or loc[9]:
\* a float (integer part, fraction digits without trailing zeros), a str,
\* or the float NaN.
Num(ip, fp) == [t |-> "num", ip |-> ip, fp |-> fp, s |-> <<>>]
Str(s) == [t |-> "str", ip |-> 0, fp |-> <<>>, s |-> s]
NaN == [t |-> "nan", ip |-> 0, fp |-> <<>>, s |-> <<>>]

\* Length of the longest run of characters of set cs that starts at
\* position i of s (what a greedy cs* consumes there).
RECURSIVE Run(_, _, _)
Run(s, i, cs) ==
    IF i <= Len(s) /\ s[i] \in cs THEN 1 + Run(s, i + 1, cs) ELSE 0

\* The regular expression groups of a successful match; None otherwise.
None == [ok |-> FALSE, g0 |-> <<>>, g1 |-> <<>>, g2 |-> <<>>]

\* Position after the longest run of characters of cs that starts at i
Skip(s, i, cs) == i + Run(s, i, cs)

\* The common prefix S(\d+)_D(\d+) followed by a blank.  p is the position
\* after the first run of digits (that of "_"), q the position after the
\* second one (that of the blank).  A greedy \d+ takes the whole run: a
\* shorter one is followed by a digit, never by "_" or the blank.
SDPrefixAt(name, p, q) ==
    [ok |-> /\ Len(name) >= 1 /\ name[1] = "S"
            /\ p > 2
            /\ p <= Len(name) /\ name[p] = "_"
            /\ p + 1 <= Len(name) /\ name[p + 1] = "D"
            /\ q > p + 2
            /\ q <= Len(name) /\ name[q] = " ",
     g0 |-> SubSeq(name, 2, p - 1),
     g1 |-> SubSeq(name, p + 2, q - 1),
     q |-> q]

SDPrefixFrom(name, p) == SDPrefixAt(name, p, Skip(name, p + 2, Digits))

SDPrefix(name) == SDPrefixFrom(name, Skip(name, 2, Digits))

\* The third group \d+\.?\d* from position q + 1 on; r is the position
\* after its first run of digits.
FGroupAt(name, pre, r) ==
    IF pre.ok /\ r > pre.q + 1
    THEN [ok |-> TRUE, g0 |-> pre.g0, g1 |-> pre.g1,
          g2 |-> SubSeq(name, pre.q + 1,
                        IF r <= Len(name) /\ name[r] = "."
                        THEN Skip(name, r + 1, Digits) - 1 ELSE r - 1)]
    ELSE None

FGroup(name, pre) == FGroupAt(name, pre, Skip(name, pre.q + 1, Digits))

\* _S_D_F_RE.match(name): S(\d+)_D(\d+) (\d+\.?\d*)
S_D_F_RE_match(name) == FGroup(name, SDPrefix(name))

\* The third group \w+ from position q + 1 on; r is the position after it.
HGroupAt(name, pre, r) ==
    IF pre.ok /\ r > pre.q + 1
    THEN [ok |-> TRUE, g0 |-> pre.g0, g1 |-> pre.g1,
          g2 |-> SubSeq(name, pre.q + 1, r - 1)]
    ELSE None

HGroup(name, pre) == HGroupAt(name, pre, Skip(name, pre.q + 1, WordChars))

\* _S_D_H_RE.match(name): S(\d+)_D(\d+) (\w+)
S_D_H_RE_match(name) == HGroup(name, SDPrefix(name))

\* Value of a run of decimal digits.
RECURSIVE DecValue(_)
DecValue(ds) ==
    IF ds = <<>> THEN 0
    ELSE 10 * DecValue(SubSeq(ds, 1, Len(ds) - 1)) + DigitVal(ds[Len(ds)])

RECURSIVE StripZeros(_)
StripZeros(ds) ==
    IF ds # <<>> /\ ds[Len(ds)] = "0"
    THEN StripZeros(SubSeq(ds, 1, Len(ds) - 1))
    ELSE ds

\* float(text) for a text matched by \d+\.?\d*; n is the position after the
\* integer part
FloatAt(text, n) ==
    Num(DecValue(SubSeq(text, 1, n - 1)),
        StripZeros(SubSeq(text, n + 1, Len(text))))

Float(text) == FloatAt(text, Skip(text, 1, Digits))

----------------------------------------------------------------------------
(* The measurement info *)

WaveTypes == {"fnirs_cw_amplitude", "fnirs_od"}
ChromaTypes == {"hbo", "hbr"}
FnirsTypes == WaveTypes \cup ChromaTypes

Range(s) == {s[i] : i \in 1..Len(s)}

Min(a, b) == IF a <= b THEN a ELSE b

\* info.ch_names
ch_names(c) == [i \in 1..Len(c) |-> c[i].ch_name]

\* _picks_to_idx(info, types, exclude=[], allow_empty=True): the indices of
\* the channels of the given types, ascending.
RECURSIVE picks_from(_, _, _)
picks_from(c, types, i) ==
    IF i > Len(c) THEN <<>>
    ELSE (IF c[i].kind \in types THEN <<i - 1>> ELSE <<>>)
         \o picks_from(c, types, i + 1)

picks_to_idx(c, types) == picks_from(c, types, 1)

\* A slip that walks over every pick instead of every second one
EveryPick(p) == p

\* picks[::2]
EveryOther(p) == [k \in 1..((Len(p) + 1) \div 2) |-> p[2 * k - 1]]

\* A slip that takes one name too many
Slice3(c, ii) == SubSeq(ch_names(c), ii + 1, Min(ii + 3, Len(c)))

\* info.ch_names[ii:ii + 2]: a slice, cut at the end of the list
Slice2(c, ii) == SubSeq(ch_names(c), ii + 1, Min(ii + 2, Len(c)))

\* What a call ends with: a returned value or a raised exception.
Return(v) == [exc |-> "none", msg |-> "", val |-> v]
Raise(e, m) == [exc |-> e, msg |-> m, val |-> <<>>]

\* _throw_or_return_empty(msg, throw_errors)
throw_or_return_empty(m, throw_errors) ==
    IF throw_errors THEN Raise("ValueError", m) ELSE Return(<<>>)

\* _fnirs_check_bads(info): TRUE when it raises RuntimeError
fnirs_check_bads(c, b) ==
    LET picks == picks_to_idx(c, FnirsTypes)
        it == EveryOther(picks)
    IN  \E k \in 1..Len(it) :
            Cardinality(Range(b) \cap Range(Slice2(c, it[k]))) = 1

\* _fnirs_spread_bads(info): the new info['bads']
RECURSIVE spread_loop(_, _, _, _)
spread_loop(c, b, it, k) ==
    IF k > Len(it) THEN <<>>
    ELSE (IF Range(b) \cap Range(Slice2(c, it[k])) # {}
          THEN Slice2(c, it[k]) ELSE <<>>)
         \o spread_loop(c, b, it, k + 1)

fnirs_spread_bads(c, b) ==
    spread_loop(c, b, EveryOther(picks_to_idx(c, FnirsTypes)), 1)

----------------------------------------------------------------------------
(* _check_channels_ordered *)

hbo == <<"h", "b", "o">>
hbr == <<"h", "b", "r">>

\* The loop body once both names went through both regular expressions
\* (f1, f2: _S_D_F_RE, h1, h2: _S_D_H_RE), with the current value of the
\* local variable picks.  Ends with the new value of picks, or with the
\* exception that leaves the function.  The second regular expression
\* counts when the first does not match both names.  When neither matches
\* both names and errors are not thrown, the comparison that follows reads
\* .groups() of a match that is None.
pair_compare(pair_vals, throw_errors, picks, f1, f2, h1, h2) ==
    LET freq == f2.ok /\ f1.ok
        chroma == h2.ok /\ h1.ok
        ch1_name_info == IF freq THEN f1 ELSE h1
        ch2_name_info == IF freq THEN f2 ELSE h2
        first_value == IF freq THEN Float(f1.g2) ELSE Str(h1.g2)
        second_value == IF freq THEN Float(f2.g2) ELSE Str(h2.g2)
        label == ~freq /\ chroma /\
                 (first_value.s \notin {hbo, hbr} \/
                  second_value.s \notin {hbo, hbr})
        parse == ~freq /\ ~chroma
        order == \/ ch1_name_info.g0 # ch2_name_info.g0
                 \/ ch1_name_info.g1 # ch2_name_info.g1
                 \/ first_value # pair_vals[1]
                 \/ second_value # pair_vals[2]
    IN  IF label /\ throw_errors THEN throw_or_return_empty("label", TRUE)
        ELSE IF parse /\ throw_errors
        THEN throw_or_return_empty("parse", TRUE)
        ELSE IF parse THEN Raise("AttributeError", "groups")
        ELSE IF order /\ throw_errors
        THEN throw_or_return_empty("order", TRUE)
        ELSE IF label \/ order THEN throw_or_return_empty("", FALSE)
        ELSE Return(picks)

\* One pass of the loop body for the pair that starts at channel ii: the
\* channels read are those of index ii and ii + 1.
pair_step(c, pair_vals, throw_errors, ii, picks) ==
    IF ii + 2 > Len(c) THEN Raise("IndexError", "chs")
    ELSE pair_compare(pair_vals, throw_errors, picks,
                      S_D_F_RE_match(c[ii + 1].ch_name),
                      S_D_F_RE_match(c[ii + 2].ch_name),
                      S_D_H_RE_match(c[ii + 1].ch_name),
                      S_D_H_RE_match(c[ii + 2].ch_name))

\* for ii in picks[::2]: the iterator it is taken from the value picks had
\* before the loop and is not affected by the assignments to picks.
RECURSIVE pair_loop(_, _, _, _, _, _)
pair_loop(c, pair_vals, throw_errors, it, k, picks) ==
    IF k > Len(it) THEN Return(picks)
    ELSE LET step == pair_step(c, pair_vals, throw_errors, it[k], picks)
         IN  IF step.exc # "none" THEN step
             ELSE pair_loop(c, pair_vals, throw_errors, it, k + 1, step.val)

\* A slip that accepts wavelength and chromophore channels side by side
combination_never(picks_wave, picks_chroma) == FALSE

\* (len(picks_wave) > 0) & (len(picks_chroma) > 0)
combination(picks_wave, picks_chroma) ==
    Len(picks_wave) > 0 /\ Len(picks_chroma) > 0

\* A slip that tests the parity the wrong way round
odd_number_swapped(picks) == Len(picks) % 2 = 0

\* len(picks) % 2 != 0
odd_number(picks) == Len(picks) % 2 # 0

check_channels_ordered(c, b, pair_vals, throw_errors) ==
    LET picks_wave == picks_to_idx(c, WaveTypes)
        picks_chroma == picks_to_idx(c, ChromaTypes)
        picks0 == picks_chroma \o picks_wave
        mixed == combination(picks_wave, picks_chroma)
        picks1 == IF mixed THEN <<>> ELSE picks0
        odd == odd_number(picks1)
        picks2 == IF odd THEN <<>> ELSE picks1
        nan == \E k \in 1..Len(picks_wave) : c[picks_wave[k] + 1].loc9 = NaN
        picks3 == IF nan THEN <<>> ELSE picks2
        loop == pair_loop(c, pair_vals, throw_errors, EveryOther(picks3), 1,
                          picks3)
    IN  IF mixed /\ throw_errors THEN throw_or_return_empty("mixed", TRUE)
        ELSE IF odd /\ throw_errors THEN throw_or_return_empty("odd", TRUE)
        ELSE IF nan /\ throw_errors THEN throw_or_return_empty("nan", TRUE)
        ELSE IF loop.exc # "none" THEN loop
        ELSE IF fnirs_check_bads(c, b) THEN Raise("RuntimeError", "bads")
        ELSE Return(loop.val)

----------------------------------------------------------------------------
(* _channel_frequencies and _optode_position *)

\* An element of np.empty(n, int) that was never assigned
Uninit == [t |-> "uninit", ip |-> 0, fp |-> <<>>, s |-> <<>>]

\* What a never assigned element may hold when it is read
Garbage == {Num(0, <<>>), Num(1, <<>>)}

\* The arrays the caller may see: every never assigned element holds some
\* value.
Filled(freqs) ==
    {[i \in 1..Len(freqs) |-> IF freqs[i] = Uninit THEN g[i] ELSE freqs[i]] :
        g \in [1..Len(freqs) -> Garbage]}

\* The loop of _channel_frequencies from the k-th pick on; freqs is the int
\* array so far.  The result is the set of the ways the call may end:
\* freqs[ii] = freq stores at the channel index ii (IndexError past the end
\* of the array), converts the float to int (ValueError for NaN), and which
\* of the two is detected first is left open.
RECURSIVE freq_loop(_, _, _, _, _)
freq_loop(c, nominal, picks, k, freqs) ==
    IF k > Len(picks) THEN {Return(f) : f \in Filled(freqs)}
    ELSE
    LET ii == picks[k]
        m == S_D_F_RE_match(c[ii + 1].ch_name)
        freq == IF nominal THEN Float(m.g2) ELSE c[ii + 1].loc9
        oob == ii >= Len(freqs)
        nan == freq = NaN
    IN  IF nominal /\ ~m.ok THEN {Raise("AttributeError", "groups")}
        ELSE IF oob /\ nan
        THEN {Raise("IndexError", "freqs"), Raise("ValueError", "int")}
        ELSE IF oob THEN {Raise("IndexError", "freqs")}
        ELSE IF nan THEN {Raise("ValueError", "int")}
        ELSE freq_loop(c, nominal, picks, k + 1,
                       [freqs EXCEPT ![ii + 1] = Num(freq.ip, <<>>)])

channel_frequencies(c, nominal) ==
    LET picks == picks_to_idx(c, WaveTypes)
    IN  freq_loop(c, nominal, picks, 1, [i \in 1..Len(picks) |-> Uninit])

\* optode in a, for two str
Contains(a, sub) ==
    \E i \in 1..(Len(a) - Len(sub) + 1) : SubSeq(a, i, i + Len(sub) - 1) = sub

\* _optode_position(info, optode); loc[3:6] is the field src of a channel
\* and loc[6:9] its field det.
optode_position(c, optode) ==
    LET hits == {i \in 1..Len(c) : Contains(c[i].ch_name, optode)}
        idx == CHOOSE i \in hits : \A j \in hits : i <= j
    IN  IF hits = {} THEN Raise("ValueError", "index")
        ELSE IF "S" \in Range(optode) THEN Return(c[idx].src)
        ELSE IF "D" \in Range(optode) THEN Return(c[idx].det)
        ELSE Raise("UnboundLocalError", "loc_idx")

----------------------------------------------------------------------------
(* Channels the model builds infos from *)

Ch(name, kind, loc9, src, det) ==
    [ch_name |-> name, kind |-> kind, loc9 |-> loc9, src |-> src, det |-> det]

\* Optode coordinates: every source and every detector has a place of its own
SrcPos(i) == <<i, 0, 0>>
DetPos(j) == <<0, j, 0>>

S1_D1_760 == <<"S", "1", "_", "D", "1", " ", "7", "6", "0">>
S1_D1_850 == <<"S", "1", "_", "D", "1", " ", "8", "5", "0">>
S1_D2_760 == <<"S", "1", "_", "D", "2", " ", "7", "6", "0", ".", "0">>
S1_D2_850 == <<"S", "1", "_", "D", "2", " ", "8", "5", "0">>
S10_D1_760 == <<"S", "1", "0", "_", "D", "1", " ", "7", "6", "0">>
S10_D1_850 == <<"S", "1", "0", "_", "D", "1", " ", "8", "5", "0">>
S2_D10_760 == <<"S", "2", "_", "D", "1", "0", " ", "7", "6", "0">>
S1_D1_hbo == <<"S", "1", "_", "D", "1", " ", "h", "b", "o">>
S1_D1_hbr == <<"S", "1", "_", "D", "1", " ", "h", "b", "r">>
S1_D1_foo == <<"S", "1", "_", "D", "1", " ", "f", "o", "o">>
CH1 == <<"C", "H", "1">>
MISC1 == <<"M", "I", "S", "C", "1">>
MISC2 == <<"M", "I", "S", "C", "2">>

f760 == Num(760, <<>>)
f850 == Num(850, <<>>)

A1 == Ch(S1_D1_760, "fnirs_cw_amplitude", f760, SrcPos(1), DetPos(1))
A2 == Ch(S1_D1_850, "fnirs_cw_amplitude", f850, SrcPos(1), DetPos(1))
B1 == Ch(S1_D2_760, "fnirs_od", f760, SrcPos(1), DetPos(2))
B2 == Ch(S1_D2_850, "fnirs_od", f850, SrcPos(1), DetPos(2))
H1 == Ch(S1_D1_hbo, "hbo", NaN, SrcPos(1), DetPos(1))
H2 == Ch(S1_D1_hbr, "hbr", NaN, SrcPos(1), DetPos(1))
\* a chromophore channel with a label of its own
HF == Ch(S1_D1_foo, "hbo", NaN, SrcPos(1), DetPos(1))
\* an amplitude channel without stored wavelength
A1nan == Ch(S1_D1_760, "fnirs_cw_amplitude", NaN, SrcPos(1), DetPos(1))
\* an amplitude channel whose name follows no convention
AU == Ch(CH1, "fnirs_cw_amplitude", f760, SrcPos(1), DetPos(1))
\* channels of another type
M1 == Ch(MISC1, "misc", NaN, <<0, 0, 0>>, <<0, 0, 0>>)
M2 == Ch(MISC2, "misc", NaN, <<0, 0, 0>>, <<0, 0, 0>>)
MU == Ch(CH1, "misc", NaN, <<0, 0, 0>>, <<0, 0, 0>>)
\* a channel that was an fNIRS channel once and was given another type
MA2 == Ch(S1_D1_850, "misc", f850, SrcPos(1), DetPos(1))
\* channels of the optodes S10 and D10
T1 == Ch(S10_D1_760, "fnirs_cw_amplitude", f760, SrcPos(10), DetPos(1))
T2 == Ch(S10_D1_850, "fnirs_cw_amplitude", f850, SrcPos(10), DetPos(1))
T3 == Ch(S2_D10_760, "fnirs_cw_amplitude", f760, SrcPos(2), DetPos(10))

OrderedChannels == {A1, A2, B1, B2, H1, H2, HF, A1nan, AU, MU, MA2}
FreqChannels == {A1, A2, B1, A1nan, AU, MU}
OptodeChannels == {A1, A2, T1, T2, T3, M1}
BadsChannels == {A1, A2, B1, B2, M1, M2}

\* pair_vals of the calls
PairVals == {<<f760, f850>>, <<Str(hbo), Str(hbr)>>,
             <<Str(<<"f", "o", "o">>), Str(hbr)>>}

\* optode of the calls
Optodes == {<<"S", "1">>, <<"S", "1", "0">>, <<"S", "2">>,
            <<"D", "1">>, <<"D", "1", "0">>, <<"D", "2">>}

----------------------------------------------------------------------------
(* The state machine: an info is built, then the functions are called.     *)
(* ret is the last call (function, arguments, bads before it, outcome),    *)
(* prev the call before it.  The three queries are called on a fresh info; *)
(* _fnirs_spread_bads and _fnirs_check_bads may follow one another.        *)

NoCall == [op |-> "none", arg |-> <<>>, before |-> <<>>, out |-> Return(<<>>)]

Call(op, arg, out) == [op |-> op, arg |-> arg, before |-> bads, out |-> out]

Init ==
    /\ chs = <<>>
    /\ bads = <<>>
    /\ prev = NoCall
    /\ ret = NoCall

\* The host toolkit appends a channel; channel names are unique.
AddChannel(c) ==
    /\ ret = NoCall
    /\ bads = <<>>
    /\ Len(chs) < MaxCh
    /\ c.ch_name \notin Range(ch_names(chs))
    /\ chs' = Append(chs, c)
    /\ UNCHANGED <<bads, prev, ret>>

\* The user marks the channel of index ii bad.
MarkBad(ii) ==
    /\ ret = NoCall
    /\ ii \in 0..(Len(chs) - 1)
    /\ chs[ii + 1].ch_name \notin Range(bads)
    /\ bads' = Append(bads, chs[ii + 1].ch_name)
    /\ UNCHANGED <<chs, prev, ret>>

\* Index of the channel of a name
IndexOf(name) == CHOOSE i \in 0..(Len(chs) - 1) : chs[i + 1].ch_name = name

\* The user marks channels bad in the order of the channel list
\* (_check_channels_ordered reads bads as a set only, line 204).
MarkBadInOrder(ii) ==
    /\ \A k \in 1..Len(bads) : IndexOf(bads[k]) < ii
    /\ MarkBad(ii)

CheckChannelsOrdered(pair_vals, throw_errors) ==
    /\ ret = NoCall
    /\ ret' = Call("check_channels_ordered", <<pair_vals, throw_errors>>,
                   check_channels_ordered(chs, bads, pair_vals, throw_errors))
    /\ prev' = ret
    /\ UNCHANGED <<chs, bads>>

ChannelFrequencies(nominal) ==
    /\ ret = NoCall
    /\ \E out \in channel_frequencies(chs, nominal) :
           ret' = Call("channel_frequencies", <<nominal>>, out)
    /\ prev' = ret
    /\ UNCHANGED <<chs, bads>>

OptodePosition(optode) ==
    /\ ret = NoCall
    /\ ret' = Call("optode_position", <<optode>>,
                   optode_position(chs, optode))
    /\ prev' = ret
    /\ UNCHANGED <<chs, bads>>

FnirsSpreadBads ==
    /\ bads' = fnirs_spread_bads(chs, bads)
    /\ ret' = Call("fnirs_spread_bads", <<>>, Return(bads'))
    /\ prev' = ret
    /\ UNCHANGED chs

FnirsCheckBads ==
    /\ ret' = Call("fnirs_check_bads", <<>>,
                   IF fnirs_check_bads(chs, bads)
                   THEN Raise("RuntimeError", "bads") ELSE Return(<<>>))
    /\ prev' = ret
    /\ UNCHANGED <<chs, bads>>

NextOrdered ==
    \/ \E c \in OrderedChannels : AddChannel(c)
    \/ \E ii \in 0..(MaxCh - 1) : MarkBadInOrder(ii)
    \/ \E pair_vals \in PairVals, throw_errors \in BOOLEAN :
           CheckChannelsOrdered(pair_vals, throw_errors)

NextFreq ==
    \/ \E c \in FreqChannels : AddChannel(c)
    \/ \E nominal \in BOOLEAN : ChannelFrequencies(nominal)

NextOptode ==
    \/ \E c \in OptodeChannels : AddChannel(c)
    \/ \E optode \in Optodes : OptodePosition(optode)

NextBads ==
    \/ \E c \in BadsChannels : AddChannel(c)
    \/ \E ii \in 0..(MaxCh - 1) : MarkBad(ii)
    \/ FnirsSpreadBads
    \/ FnirsCheckBads

SpecOrdered == Init /\ [][NextOrdered]_vars
SpecFreq == Init /\ [][NextFreq]_vars
SpecOptode == Init /\ [][NextOptode]_vars
SpecBads == Init /\ [][NextBads]_vars

----------------------------------------------------------------------------
(* Vocabulary of the properties *)

IsCheck == ret.op = "check_channels_ordered"
PairValsArg == ret.arg[1]
ThrowErrors == ret.arg[2]

\* Positions (1-based) of the fNIRS channels, and the k-th of them
FnirsPos(c) == {i \in 1..Len(c) : c[i].kind \in FnirsTypes}
WavePos(c) == {i \in 1..Len(c) : c[i].kind \in WaveTypes}
ChromaPos(c) == {i \in 1..Len(c) : c[i].kind \in ChromaTypes}
Nth(S, k) == CHOOSE i \in S : Cardinality({j \in S : j < i}) = k - 1

\* The channel indices (0-based) of a set of positions, ascending
Indices(S) == [k \in 1..Cardinality(S) |-> Nth(S, k) - 1]

OneFamily(c) == WavePos(c) = {} \/ ChromaPos(c) = {}
Mixed(c) == ~OneFamily(c)
EvenCount(c) == Cardinality(FnirsPos(c)) % 2 = 0
NoNaN(c) == \A i \in WavePos(c) : c[i].loc9 # NaN

\* The fNIRS channels taken two at a time in channel order: the positions
\* of the members of the k-th pair
NPairs(c) == Cardinality(FnirsPos(c)) \div 2
First(c, k) == Nth(FnirsPos(c), 2 * k - 1)
Second(c, k) == Nth(FnirsPos(c), 2 * k)
Adjacent(c) == \A k \in 1..NPairs(c) : Second(c, k) = First(c, k) + 1

\* What a channel name says: source index, detector index, and the value
\* after the blank (a number where the name gives one, a label otherwise)
Parses(name) == S_D_H_RE_match(name).ok
SourceOf(name) == S_D_H_RE_match(name).g0
DetectorOf(name) == S_D_H_RE_match(name).g1
ValueOf(name) ==
    IF S_D_F_RE_match(name).ok THEN Float(S_D_F_RE_match(name).g2)
    ELSE Str(S_D_H_RE_match(name).g2)

\* The two names form a pair that follows pair_vals
GoodPair(n1, n2, pair_vals) ==
    /\ Parses(n1) /\ Parses(n2)
    /\ SourceOf(n1) = SourceOf(n2)
    /\ DetectorOf(n1) = DetectorOf(n2)
    /\ ValueOf(n1) = pair_vals[1]
    /\ ValueOf(n2) = pair_vals[2]

GoodPairs(c, pair_vals) ==
    \A k \in 1..NPairs(c) :
        GoodPair(c[First(c, k)].ch_name, c[Second(c, k)].ch_name, pair_vals)

\* Both values of a pair are numbers, or both are labels among hbo and hbr
KnownValues(n1, n2) ==
    \/ ValueOf(n1).t = "num" /\ ValueOf(n2).t = "num"
    \/ ValueOf(n1) \in {Str(hbo), Str(hbr)} /\ ValueOf(n2) \in {Str(hbo), Str(hbr)}

KnownLabels(c) ==
    \A k \in 1..NPairs(c) :
        KnownValues(c[First(c, k)].ch_name, c[Second(c, k)].ch_name)

\* bads holds both or neither member of each pair
BadsPaired(c, b) ==
    \A k \in 1..NPairs(c) :
        c[First(c, k)].ch_name \in Range(b) <=> c[Second(c, k)].ch_name \in Range(b)

WellPaired(c, b, pair_vals) ==
    /\ OneFamily(c) /\ EvenCount(c) /\ NoNaN(c) /\ Adjacent(c)
    /\ GoodPairs(c, pair_vals)
    /\ BadsPaired(c, b)

----------------------------------------------------------------------------
(* C1 *)

\* C1 as stated: for correctly paired channels (one family, even number,
\* wavelengths stored, adjacent pairs that follow pair_vals, bads on both or
\* neither member of a pair) _check_channels_ordered raises nothing and
\* returns the indices of all fNIRS channels.
C1_AsStated ==
    IsCheck /\ WellPaired(chs, bads, PairValsArg)
        => ret.out = Return(Indices(FnirsPos(chs)))

\* C1: for correctly paired channels whose pair values are numbers or the
\* labels hbo and hbr, _check_channels_ordered raises nothing and returns
\* the indices of all fNIRS channels, with either value of throw_errors.
C1_ReturnsAllPicks ==
    IsCheck /\ WellPaired(chs, bads, PairValsArg) /\ KnownLabels(chs)
        => ret.out = Return(Indices(FnirsPos(chs)))

\* Two correct pairs, one of them bad, were checked.
C1_Witness ==
    /\ IsCheck /\ WellPaired(chs, bads, PairValsArg) /\ KnownLabels(chs)
    /\ NPairs(chs) = 2
    /\ bads # <<>>

----------------------------------------------------------------------------
(* C2 *)

\* Some pair of fNIRS channels breaks a rule on names
BadPair(c, pair_vals) ==
    \E k \in 1..NPairs(c) :
        ~GoodPair(c[First(c, k)].ch_name, c[Second(c, k)].ch_name, pair_vals)

\* The info breaks a formatting rule
Invalid(c, pair_vals) ==
    \/ Mixed(c) \/ ~EvenCount(c) \/ ~NoNaN(c)
    \/ BadPair(c, pair_vals)
    \/ ~KnownLabels(c)

\* C2: with throw_errors=False, an info that breaks a formatting rule makes
\* _check_channels_ordered return an empty result and raise nothing (here
\* for infos without bad channels, so that the bads check cannot raise).
C2_EmptyNotError ==
    IsCheck /\ ~ThrowErrors /\ bads = <<>> /\ Invalid(chs, PairValsArg)
        => ret.out = Return(<<>>)

----------------------------------------------------------------------------
(* C4 *)

\* C4 as stated: an odd total channel count makes every call raise.
C4_AsStated ==
    IsCheck /\ Len(chs) % 2 = 1 => ret.out.exc # "none"

\* C4: an odd number of fNIRS channels makes every call with
\* throw_errors=True raise ValueError.
C4_OddFnirsRaises ==
    IsCheck /\ ThrowErrors /\ ~EvenCount(chs) => ret.out.exc = "ValueError"

\* Three channels of one family were checked and the odd number was named.
C4_Witness ==
    /\ IsCheck /\ ThrowErrors
    /\ Cardinality(FnirsPos(chs)) = 3
    /\ ret.out = Raise("ValueError", "odd")

----------------------------------------------------------------------------
(* C5 *)

\* C5 as stated: amplitude or optical density next to hbo or hbr channels
\* makes every call raise.
C5_AsStated ==
    IsCheck /\ Mixed(chs) => ret.out.exc # "none"

\* C5: amplitude or optical density next to hbo or hbr channels makes every
\* call with throw_errors=True raise ValueError.
C5_MixedRaises ==
    IsCheck /\ ThrowErrors /\ Mixed(chs) => ret.out.exc = "ValueError"

\* A correct wavelength pair followed by a correct chromophore pair was
\* checked and the combination was named.
C5_Witness ==
    /\ IsCheck /\ ThrowErrors /\ Mixed(chs)
    /\ EvenCount(chs) /\ NPairs(chs) = 2
    /\ ret.out = Raise("ValueError", "mixed")

----------------------------------------------------------------------------
(* C6 *)

\* C6: with throw_errors=True, a pair of fNIRS channels (taken two at a time
\* in channel order) whose names do not share source and detector, or whose
\* values differ from pair_vals, makes the call raise ValueError.
C6_BadPairRaises ==
    IsCheck /\ ThrowErrors /\ BadPair(chs, PairValsArg)
        => ret.out.exc = "ValueError"

----------------------------------------------------------------------------
(* C3, C7, C9: _fnirs_spread_bads *)

IsSpread == ret.op = "fnirs_spread_bads"

\* C3: _fnirs_spread_bads is idempotent: a second call right after a first
\* one leaves the bads the first one produced.
C3_SpreadIdempotent ==
    IsSpread /\ prev.op = "fnirs_spread_bads" => bads = ret.before

\* Two calls in a row on an info with two pairs, where the first call
\* changed the bads and left some.
C3_Witness ==
    /\ IsSpread /\ prev.op = "fnirs_spread_bads"
    /\ NPairs(chs) = 2
    /\ prev.before # ret.before
    /\ bads # <<>>

\* C7: after _fnirs_spread_bads, a _fnirs_check_bads call made right after
\* it raises nothing.
C7_CheckAfterSpread ==
    ret.op = "fnirs_check_bads" /\ prev.op = "fnirs_spread_bads"
        => ret.out.exc = "none"

\* C9: _fnirs_spread_bads never removes a bad flag: every name in bads
\* before the call is in bads after it.
C9_SpreadKeepsBads ==
    IsSpread => Range(ret.before) \subseteq Range(bads)

----------------------------------------------------------------------------
(* C8: _channel_frequencies *)

\* The frequency of the channel at position i: the number in its name when
\* nominal, the stored one otherwise
FrequencyOf(c, i, nominal) ==
    IF nominal THEN Float(S_D_F_RE_match(c[i].ch_name).g2) ELSE c[i].loc9

\* Every wavelength channel has a frequency in its name and a stored one
HasFrequencies(c) ==
    \A i \in WavePos(c) :
        S_D_F_RE_match(c[i].ch_name).ok /\ c[i].loc9 # NaN

\* C8: _channel_frequencies returns one entry per amplitude or optical
\* density channel, the k-th being the frequency of the k-th such channel,
\* wherever those channels sit (here for channels that have a frequency).
C8_FrequencyPerChannel ==
    ret.op = "channel_frequencies" /\ HasFrequencies(chs)
        => ret.out = Return([k \in 1..Cardinality(WavePos(chs)) |->
                                FrequencyOf(chs, Nth(WavePos(chs), k),
                                            ret.arg[1])])

----------------------------------------------------------------------------
(* C10: _optode_position *)

\* The optode asked for
OptodeArg == ret.arg[1]

\* The places of the optode asked for, over the channels that have it
PlacesOf(c, optode) ==
    IF Head(optode) = "S"
    THEN {c[i].src : i \in {j \in 1..Len(c) :
            Parses(c[j].ch_name) /\ SourceOf(c[j].ch_name) = Tail(optode)}}
    ELSE {c[i].det : i \in {j \in 1..Len(c) :
            Parses(c[j].ch_name) /\ DetectorOf(c[j].ch_name) = Tail(optode)}}

\* C10: _optode_position returns the place of exactly the optode asked for:
\* when some channel has the optode, the result is the source (or detector)
\* place of a channel with that source (or detector) index.
C10_PositionOfOptode ==
    ret.op = "optode_position" /\ PlacesOf(chs, OptodeArg) # {}
        => ret.out.exc = "none" /\ ret.out.val \in PlacesOf(chs, OptodeArg)

====
